---- MODULE Spec2Model ----
(***************************************************************************)
(* State-machine model of the client-side filter manager (FilterMgr), the  *)
(* RPC server it polls, the expiry timers it arms, and the request ids of  *)
(* the provider (TinyWeb3Provider, IdMapping) in front of it.              *)
(*                                                                         *)
(* Every asynchronous method of FilterMgr is split at its await points:    *)
(* the synchronous prefix is one action, each promise continuation         *)
(* (".then" callback) is one action.  setTimeout callbacks are actions     *)
(* that the JavaScript event loop may run once their delay has elapsed.    *)
(***************************************************************************)
EXTENDS Integers, Sequences, FiniteSets, TLC

\* ------------------------------------------------------------------ bounds
\* Largest chain height the node reports.
MaxHead == 3
\* The clock advances MaxTicks times, TickMs milliseconds each time.
MaxTicks == 2
TickMs == 150000
\* The node's head is a height of 0 .. MaxHead or of MinHigh .. MaxHigh:
\* heights whose decimal digits read differently in base 16.
MinHigh == 10
MaxHigh == 11
\* IdMapping.genId() returns one of MaxGenIds numbers.
MaxGenIds == 2
\* The provider has at most MaxPosted requests at the transport.
MaxPosted == 2

\* ------------------------------------------------------- JavaScript values
\* A JavaScript value that can reach hexToInt / intToHex: k is its kind,
\* v its numeric content, s its text when it is a string that is not a
\* well-formed "0x..." hexadecimal literal.
Undefined == [k |-> "undefined", v |-> 0, s |-> ""]
NaN == [k |-> "NaN", v |-> 0, s |-> ""]
Num(n) == [k |-> "number", v |-> n, s |-> ""]
Hex(n) == [k |-> "hex", v |-> n, s |-> ""]
Str(t) == [k |-> "string", v |-> 0, s |-> t]

\* String(n) read back as base-16 digits: Number.parseInt(n, 16) of a
\* non-negative JavaScript number n.
RECURSIVE DecimalDigitsAsHex(_)
DecimalDigitsAsHex(n) ==
  IF n < 10 THEN n ELSE 16 * DecimalDigitsAsHex(n \div 10) + (n % 10)

\* Number.parseInt(x, 16).
parseInt16(x) ==
  CASE x.k = "hex" -> Num(x.v)
    [] x.k = "number" -> Num(DecimalDigitsAsHex(x.v))
    [] x.k = "string" /\ x.s = "earliest" -> Num(234)
    [] OTHER -> NaN

\* JavaScript truthiness.
Truthy(x) ==
  CASE x.k = "undefined" -> FALSE
    [] x.k = "NaN" -> FALSE
    [] x.k = "number" -> x.v # 0
    [] x.k = "hex" -> TRUE
    [] OTHER -> x.s # ""

\* hex && Number.parseInt(hex, 16)
hexToInt(hex) == IF Truthy(hex) THEN parseInt16(hex) ELSE hex

\* int && `0x${int.toString(16)}`
intToHex(int) == IF Truthy(int) THEN Hex(int.v) ELSE int

\* a > b and a >= b on JavaScript numbers (false when either is NaN).
JsGt(a, b) == a.k = "number" /\ b.k = "number" /\ a.v > b.v
JsGe(a, b) == a.k = "number" /\ b.k = "number" /\ a.v >= b.v

\* new Array(to - from).fill().map((_, i) => i + from)
intRange(from, to) ==
  IF JsGe(from, to) THEN << >>
  ELSE [i \in 1..(to.v - from.v) |-> Num(i - 1 + from.v)]

\* ------------------------------------------------------------ Map helpers
EmptyMap == [x \in {} |-> 0]
MapHas(m, key) == key \in DOMAIN m
MapSet(m, key, val) ==
  [x \in DOMAIN m \cup {key} |-> IF x = key THEN val ELSE m[x]]
MapDelete(m, key) == [x \in DOMAIN m \ {key} |-> m[x]]

\* Map keys are compared by value: a number n is the key n, anything else
\* (NaN, undefined) is a key no filter is ever stored under.
NoKey == 0 - 1
KeyOf(x) == IF x.k = "number" THEN x.v ELSE NoKey

\* ------------------------------------------------------------------ state
VARIABLES
  filters,       \* FilterMgr.filters: filter id -> filter
  blockNumbers,  \* FilterMgr.blockNumbers: filter id -> last block number seen
  timers,        \* FilterMgr.timers: filter id -> handle of the last timer set
  timeouts,      \* the runtime's pending setTimeout callbacks (handles)
  now,           \* the runtime's clock, in milliseconds
  head,          \* the chain height the node reports
  call,          \* the FilterMgr call waiting for an RPC reply, if any
  last,          \* the promise settled by the step that led here, if any
  \* History variables: they record what has happened and steer nothing.
  \* They are kept only in the behaviours of SpecHistory (recording).
  recording,
  delivered,     \* filter id -> the head its creation recorded (c0) and the
                 \* heights its resolved polls have returned since (seen)
  polledAt,      \* filter id -> when its last resolved poll was made
  steady,        \* filter id -> its block number after its last resolved
                 \* poll, kept while the head stays what that poll was told
  fired,         \* filter ids whose timer callback has run since they were
                 \* last installed or uninstalled
  \* TinyWeb3Provider and the IdMapping of RPCServer.
  intIds,        \* TinyWeb3Provider.idMapping.intIds: generated id -> caller's id
  rpcIntIds,     \* RPCServer.idMapping.intIds
  callbacks,     \* TinyWeb3Provider.callbacks: request id -> the request whose
                 \* promise the callback settles
  posted,        \* the requests RPCServer.call has posted and not seen answered
  response       \* what the step that led here delivered to a sendAsync
                 \* callback, if anything

providerVars == <<intIds, rpcIntIds, callbacks, posted, response>>

vars == <<filters, blockNumbers, timers, timeouts, now, head, call, last,
          recording, delivered, polledAt, steady, fired, providerVars>>

Heights == (0..MaxHead) \cup (MinHigh..MaxHigh)

\* this.timeoutInterval
timeoutInterval == 5 * 60 * 1000

\* ------------------------------------------------------------ RPC server
\* What the node answers.  A block is identified by its height.
Block(n) == [number |-> n, hash |-> <<"hash", n>>, transactions |-> <<"txs", n>>]

\* The height the node reads from a block parameter: a quantity as given,
\* anything else ("latest", null, absent) as its current head.
NodeHeight(x) == IF x.k \in {"hex", "number"} THEN x.v ELSE head

\* eth_blockNumber: the head, as a hex string.
getBlockNumber == Hex(head)

\* eth_getBlockByNumber: json.result.
getBlockByNumber(number) == Block(NodeHeight(number))

\* eth_getLogs: the whole reply; every block up to the head holds one
\* matching log, identified by its height.
getFilterLogs(filter) ==
  LET lo == NodeHeight(filter.fromBlock)
      hi == IF NodeHeight(filter.toBlock) < head
            THEN NodeHeight(filter.toBlock) ELSE head
  IN [jsonrpc |-> "2.0",
      result |-> [i \in 1..(IF hi >= lo THEN hi - lo + 1 ELSE 0) |-> lo + i - 1]]

\* --------------------------------------------------------- normalization
\* Strings that start with "0x" without being a hexadecimal literal.
HexPrefixed == {"0xzz"}
startsWith0x(x) == x.k = "hex" \/ (x.k = "string" /\ x.s \in HexPrefixed)

Thrown == [k |-> "throw", v |-> 0, s |-> "Invalid block option"]

_normalizeFilterBlock(blockNumber) ==
  IF blockNumber = Undefined \/ blockNumber = Str("latest")
     \/ blockNumber = Str("pending")
  THEN Str("latest")
  ELSE IF blockNumber = Str("earliest") THEN Num(0)
  ELSE IF startsWith0x(blockNumber) THEN hexToInt(blockNumber)
  ELSE Thrown

\* An address or topics parameter: absent, one string, or an array.
Absent == [k |-> "undefined", items |-> << >>]
One(a) == [k |-> "string", items |-> <<a>>]
Arr(as) == [k |-> "array", items |-> as]
Null == [k |-> "null", items |-> << >>]

_normalizeFilter(params) ==
  [fromBlock |-> _normalizeFilterBlock(params.fromBlock),
   toBlock |-> _normalizeFilterBlock(params.toBlock),
   addresses |-> IF params.address = Absent THEN Null
                 ELSE IF params.address.k = "array" THEN params.address
                 ELSE Arr(params.address.items),
   topics |-> IF params.topics = Absent THEN Arr(<< >>) ELSE params.topics]

normalizeThrows(params) ==
  _normalizeFilterBlock(params.fromBlock) = Thrown
  \/ _normalizeFilterBlock(params.toBlock) = Thrown

\* A _normalizeParamBlock that sends "latest" whatever the filter holds.
_normalizeParamBlockAlwaysLatest(blockNumber) == Str("latest")

_normalizeParamBlock(blockNumber) ==
  IF blockNumber = Str("latest") THEN blockNumber ELSE intToHex(blockNumber)

\* filter.options of a block or pending-transaction filter is a string,
\* whose fromBlock / toBlock / topics / addresses properties are undefined.
IsLogOptions(options) == DOMAIN options = {"fromBlock", "toBlock", "addresses", "topics"}

_normalizeParams(filter) ==
  IF IsLogOptions(filter)
  THEN [fromBlock |-> _normalizeParamBlock(filter.fromBlock),
        toBlock |-> _normalizeParamBlock(filter.toBlock),
        topics |-> filter.topics,
        address |-> IF filter.addresses = Null THEN Absent ELSE filter.addresses]
  ELSE [fromBlock |-> _normalizeParamBlock(Undefined),
        toBlock |-> _normalizeParamBlock(Undefined),
        topics |-> Absent,
        address |-> Absent]

\* The newFilter parameters callers pass.
FilterParams ==
  { [fromBlock |-> Undefined, toBlock |-> Str("pending"),
     address |-> Absent, topics |-> Absent],
    [fromBlock |-> Str("earliest"), toBlock |-> Str("latest"),
     address |-> One("a"), topics |-> Arr(<<"t">>)],
    [fromBlock |-> Hex(2), toBlock |-> Hex(1),
     address |-> Arr(<<"a", "b">>), topics |-> Absent],
    [fromBlock |-> Undefined, toBlock |-> Hex(10),
     address |-> Absent, topics |-> Absent],
    [fromBlock |-> Str("0xzz"), toBlock |-> Str("earliest"),
     address |-> Absent, topics |-> Absent],
    [fromBlock |-> Hex(1), toBlock |-> Str("zz"),
     address |-> Absent, topics |-> Absent] }

\* The filter ids callers pass, as hex strings: the id of the first filter
\* installed, and an id no filter is installed under.
IdArgs == {Hex(1), Hex(2)}

\* ----------------------------------------------------------------- calls
\* No call is waiting.
Idle == [op |-> "idle"]

\* A call waiting for an RPC reply: op is the method, arg its argument,
\* id the filter id it works on, pc the reply it waits for, at the time it
\* was made, filter and fromBlock the values its closure captured,
\* blockNumber the head it was told, toBlock the upper end it computed,
\* sent the eth_getLogs and eth_getBlockByNumber requests it has issued,
\* results the slots of its Promise.all, order the indices of the requests
\* answered so far, in the order their replies arrived.
Call(op, arg, id, pc, filter, fromBlock, sent) ==
  [op |-> op, arg |-> arg, id |-> id, pc |-> pc, at |-> now,
   filter |-> filter, fromBlock |-> fromBlock, blockNumber |-> Undefined,
   toBlock |-> Undefined, sent |-> sent, results |-> << >>, order |-> << >>]

Waiting(pc) == call # Idle /\ call.pc = pc

\* A settled promise, as the caller sees it, with what the call had captured
\* and issued.
Settled(c, ok, value) ==
  [op |-> c.op, arg |-> c.arg, id |-> c.id, ok |-> ok, value |-> value,
   at |-> c.at, filter |-> c.filter, fromBlock |-> c.fromBlock,
   blockNumber |-> c.blockNumber, toBlock |-> c.toBlock, sent |-> c.sent,
   order |-> c.order]
Resolve(c, value) == Settled(c, TRUE, value)
Reject(c, error) == Settled(c, FALSE, error)
NoCall == [op |-> "none"]
\* A step that settles no promise.
Unsettled == last' = NoCall

Request(method, params) == [method |-> method, params |-> params]

CreateOps == {"newFilter", "newBlockFilter", "newPendingTransactionFilter"}
BlockPollOps == {"getBlockFilterChanges", "getTxFilterChanges"}
PollOps == BlockPollOps \cup {"getLogFilterChanges"}

\* --------------------------------------------------------------- history
\* A step that records nothing.
Same == UNCHANGED <<recording, delivered, polledAt, steady, fired>>

\* The filter stored under id is replaced or removed by the caller.
Forget(id) ==
  IF recording
  THEN /\ delivered' = MapDelete(delivered, id)
       /\ polledAt' = MapDelete(polledAt, id)
       /\ steady' = MapDelete(steady, id)
       /\ fired' = fired \ {id}
       /\ UNCHANGED recording
  ELSE Same

\* The timer callback of the filter stored under id runs.
Expired(id) ==
  IF recording
  THEN /\ delivered' = MapDelete(delivered, id)
       /\ steady' = MapDelete(steady, id)
       /\ fired' = fired \cup {id}
       /\ UNCHANGED <<recording, polledAt>>
  ELSE Same

\* The creation call c resolves, having been told the head blockNumber.
Created(c, blockNumber) ==
  IF recording /\ MapHas(filters, c.id)
  THEN /\ delivered' = MapSet(delivered, c.id,
                              [c0 |-> hexToInt(blockNumber).v, seen |-> {}])
       /\ UNCHANGED <<recording, polledAt, steady, fired>>
  ELSE Same

\* The poll c resolves, having been told the head blockNumber and
\* returning the blocks of heights.
Polled(c, blockNumber, heights) ==
  LET live == MapHas(filters, c.id) /\ MapHas(blockNumbers', c.id)
  IN IF recording
     THEN /\ polledAt' = IF live THEN MapSet(polledAt, c.id, c.at) ELSE polledAt
          /\ steady' = IF live /\ blockNumber = Hex(head)
                       THEN MapSet(steady, c.id, blockNumbers'[c.id])
                       ELSE MapDelete(steady, c.id)
          /\ delivered' = IF MapHas(delivered, c.id) /\ c.op \in BlockPollOps
                          THEN MapSet(delivered, c.id,
                                      [delivered[c.id] EXCEPT !.seen = @ \cup heights])
                          ELSE delivered
          /\ UNCHANGED <<recording, fired>>
     ELSE Same

\* The call c rejects.
Failed(c) ==
  IF recording
  THEN /\ steady' = MapDelete(steady, c.id)
       /\ UNCHANGED <<recording, delivered, polledAt, fired>>
  ELSE Same

\* The head changes.
HeadMoved ==
  IF recording
  THEN /\ steady' = EmptyMap
       /\ UNCHANGED <<recording, delivered, polledAt, fired>>
  ELSE Same

\* ---------------------------------------------------------------- timers
\* The handle setTimeout returns now, for the callback that deletes
\* filterId.
NewTimer(filterId) == [id |-> filterId, at |-> now + timeoutInterval]

\* A _clearTimer that never calls clearTimeout.
_clearTimerLeavesPending(filterId) == timeouts

\* The runtime's pending callbacks after _clearTimer(filterId).
_clearTimer(filterId) ==
  IF MapHas(timers, filterId) THEN timeouts \ {timers[filterId]} ELSE timeouts

_setupTimer(filterId) ==
  /\ timeouts' = _clearTimer(filterId) \cup {NewTimer(filterId)}
  /\ timers' = MapSet(timers, filterId, NewTimer(filterId))

\* The setTimeout callback of _setupTimer runs.
TimerFires(t) ==
  /\ t \in timeouts
  /\ now >= t.at
  /\ timeouts' = timeouts \ {t}
  /\ filters' = MapDelete(filters, t.id)
  /\ blockNumbers' = MapDelete(blockNumbers, t.id)
  /\ Expired(t.id)
  /\ Unsettled /\ UNCHANGED <<timers, now, head, call>>

\* The runtime runs a timer callback that is due.
Timeout == \E t \in timeouts : TimerFires(t)

\* --------------------------------------------------------------- creation
\* this.filters.keys.length: keys is the method Map.prototype.keys, and the
\* length of a function is the number of its parameters.
KeysLength == 0

\* The id _installFilter gives the filter it installs, and returns.
InstalledId ==
  LET count == KeysLength
  IN count + 1

_installFilter(filter) ==
  LET filterId == InstalledId
  IN /\ filters' = MapSet(filters, filterId,
                          [type |-> filter.type, options |-> filter.options,
                           id |-> filterId])
     /\ _setupTimer(filterId)

newFilter(params) ==
  IF normalizeThrows(params)
  THEN /\ last' = Reject(Call("newFilter", params, NoKey, "", Undefined,
                              Undefined, << >>), "Invalid block option")
       /\ UNCHANGED <<filters, blockNumbers, timers, timeouts, now, head, call>>
       /\ Same
  ELSE /\ call = Idle
       /\ _installFilter([type |-> "log", options |-> _normalizeFilter(params)])
       /\ call' = Call("newFilter", params, InstalledId, "blockNumber",
                       Undefined, Undefined, << >>)
       /\ Forget(InstalledId)
       /\ Unsettled /\ UNCHANGED <<blockNumbers, now, head>>

newBlockFilter ==
  /\ call = Idle
  /\ _installFilter([type |-> "block", options |-> Str("latest")])
  /\ call' = Call("newBlockFilter", Undefined, InstalledId, "blockNumber",
                  Undefined, Undefined, << >>)
  /\ Forget(InstalledId)
  /\ Unsettled /\ UNCHANGED <<blockNumbers, now, head>>

newPendingTransactionFilter ==
  /\ call = Idle
  /\ _installFilter([type |-> "tx", options |-> Str("pending")])
  /\ call' = Call("newPendingTransactionFilter", Undefined, InstalledId,
                  "blockNumber", Undefined, Undefined, << >>)
  /\ Forget(InstalledId)
  /\ Unsettled /\ UNCHANGED <<blockNumbers, now, head>>

\* The .then callback of the three creation methods.
newFilterThen ==
  /\ Waiting("blockNumber")
  /\ call.op \in CreateOps
  /\ LET blockNumber == getBlockNumber
     IN /\ blockNumbers' = MapSet(blockNumbers, call.id, blockNumber)
        /\ last' = Resolve([call EXCEPT !.blockNumber = blockNumber],
                           intToHex(Num(call.id)))
        /\ Created(call, blockNumber)
  /\ call' = Idle
  /\ UNCHANGED <<filters, timers, timeouts, now, head>>

\* An uninstallFilter that leaves the timer pending.
uninstallFilterKeepsTimer(filterId) ==
  LET id == KeyOf(hexToInt(filterId))
  IN /\ filters' = MapDelete(filters, id)
     /\ blockNumbers' = MapDelete(blockNumbers, id)
     /\ last' = Resolve(Call("uninstallFilter", filterId, id, "", Undefined,
                             Undefined, << >>), TRUE)
     /\ Forget(id)
     /\ UNCHANGED <<timers, timeouts, now, head, call>>

uninstallFilter(filterId) ==
  LET id == KeyOf(hexToInt(filterId))
  IN /\ filters' = MapDelete(filters, id)
     /\ blockNumbers' = MapDelete(blockNumbers, id)
     /\ timeouts' = _clearTimer(id)
     /\ last' = Resolve(Call("uninstallFilter", filterId, id, "", Undefined,
                             Undefined, << >>), TRUE)
     /\ Forget(id)
     /\ UNCHANGED <<timers, now, head, call>>

\* ---------------------------------------------------------------- polling
\* The synchronous part of getFilterChanges, down to the _getBlockNumber()
\* call of _getLogFilterChanges or _getBlocksForFilter.
getFilterChanges(filterId) ==
  LET id == KeyOf(hexToInt(filterId))
      found == MapHas(filters, id)
      filter == filters[id]
      hasFrom == MapHas(blockNumbers, filter.id)
      op == IF filter.type = "log" THEN "getLogFilterChanges"
            ELSE IF filter.type = "block" THEN "getBlockFilterChanges"
            ELSE "getTxFilterChanges"
      error == IF ~found THEN "getFilterChanges: no filter found"
               ELSE IF filter.type = "log"
               THEN "_getLogFilterChanges: no filter found"
               ELSE "no filter found"
  IN IF ~found \/ ~hasFrom
     THEN /\ last' = Reject(Call("getFilterChanges", filterId, id, "",
                                 Undefined, Undefined, << >>), error)
          /\ UNCHANGED <<filters, blockNumbers, timers, timeouts, now, head, call>>
          /\ Same
     ELSE /\ call = Idle
          /\ call' = Call(op, filterId, filter.id, "blockNumber", filter.options,
                          blockNumbers[filter.id], << >>)
          /\ Unsettled
          /\ UNCHANGED <<filters, blockNumbers, timers, timeouts, now, head>>
          /\ Same

\* The .then callback of _getLogFilterChanges.
_getLogFilterChangesThen ==
  /\ Waiting("blockNumber")
  /\ call.op = "getLogFilterChanges"
  /\ LET blockNumber == getBlockNumber
         filter == call.filter
         fromBlock == call.fromBlock
         toBlock == IF filter.toBlock = Str("latest")
                    THEN blockNumber ELSE filter.toBlock
         from == hexToInt(fromBlock)
         to == hexToInt(toBlock)
         query == [fromBlock |-> fromBlock, toBlock |-> toBlock,
                   addresses |-> filter.addresses, topics |-> filter.topics]
         c == [call EXCEPT !.blockNumber = blockNumber, !.toBlock = toBlock]
     IN IF JsGt(from, to)
        THEN /\ last' = Resolve(c, << >>)
             /\ call' = Idle
             /\ UNCHANGED blockNumbers
             /\ Polled(c, blockNumber, {})
        ELSE /\ call' = [c EXCEPT !.pc = "logs",
                                  !.sent = <<Request("eth_getLogs", query)>>]
             /\ Unsettled
             /\ UNCHANGED blockNumbers
             /\ Same
  /\ UNCHANGED <<filters, timers, timeouts, now, head>>

\* A block that Promise.all is still waiting for.
NotYet == Block(NoKey)

\* A Promise.all that collects the results in the order they arrive.
PromiseAllInArrivalOrder(results, i, value) ==
  LET j == CHOOSE j \in 1..Len(results) :
             /\ results[j] = NotYet
             /\ \A k \in 1..(j - 1) : results[k] # NotYet
  IN [results EXCEPT ![j] = value]

\* The array Promise.all resolves with: each result at the index of its
\* promise.
PromiseAllPut(results, i, value) == [results EXCEPT ![i] = value]

\* The requests of _getBlocksInRange, in the order they are issued.
_getBlocksInRange(fromBlock, toBlock) ==
  IF JsGe(fromBlock, toBlock) THEN << >>
  ELSE LET range == intRange(fromBlock, toBlock)
       IN [i \in 1..Len(range) |->
             Request("eth_getBlockByNumber", intToHex(range[i]))]

\* Whether the .then callback of _getBlocksForFilter records toBlock.
Advances(from, to) == JsGt(to, from)

\* The .then callback of _getBlocksForFilter.
_getBlocksForFilterThen ==
  /\ Waiting("blockNumber")
  /\ call.op \in BlockPollOps
  /\ LET toBlock == getBlockNumber
         from == hexToInt(call.fromBlock)
         to == hexToInt(toBlock)
         requests == _getBlocksInRange(from, to)
         c == [call EXCEPT !.blockNumber = toBlock, !.toBlock = toBlock]
     IN /\ blockNumbers' = IF Advances(from, to)
                           THEN MapSet(blockNumbers, call.id, toBlock)
                           ELSE blockNumbers
        /\ IF requests = << >>
           THEN /\ last' = Resolve(c, << >>)
                /\ call' = Idle
                /\ Polled(c, toBlock, {})
           ELSE /\ call' = [c EXCEPT !.pc = "blocks", !.sent = requests,
                                     !.results = [i \in 1..Len(requests) |-> NotYet]]
                /\ Unsettled
                /\ Same
  /\ UNCHANGED <<filters, timers, timeouts, now, head>>

\* blocks.map((block) => block.hash) / block.transactions
BlocksMap(op, blocks) ==
  [i \in 1..Len(blocks) |->
     IF op = "getBlockFilterChanges" THEN blocks[i].hash
     ELSE blocks[i].transactions]

\* The reply to the i-th eth_getBlockByNumber of a range scan arrives.
getBlockByNumberReply(i) ==
  /\ Waiting("blocks")
  /\ i \in 1..Len(call.results)
  /\ call.results[i] = NotYet
  /\ UNCHANGED <<filters, blockNumbers, timers, timeouts, now, head>>
  /\ LET results == PromiseAllPut(call.results, i,
                                  getBlockByNumber(call.sent[i].params))
         c == [call EXCEPT !.results = results, !.order = Append(@, i)]
     IN IF \E j \in 1..Len(results) : results[j] = NotYet
        THEN /\ call' = c
             /\ Unsettled
             /\ Same
        ELSE /\ call' = Idle
             /\ last' = Resolve(c, BlocksMap(c.op, results))
             /\ Polled(c, c.blockNumber,
                       {results[j].number : j \in 1..Len(results)})

\* The synchronous part of getFilterLogs.
getFilterLogsCall(filterId) ==
  LET id == KeyOf(hexToInt(filterId))
  IN IF ~MapHas(filters, id)
     THEN /\ last' = Reject(Call("getFilterLogs", filterId, id, "", Undefined,
                                 Undefined, << >>), "no filter found")
          /\ UNCHANGED <<filters, blockNumbers, timers, timeouts, now, head, call>>
          /\ Same
     ELSE /\ call = Idle
          /\ call' = Call("getFilterLogs", filterId, id, "logs",
                          filters[id].options, Undefined,
                          <<Request("eth_getLogs",
                                    _normalizeParams(filters[id].options))>>)
          /\ Unsettled
          /\ UNCHANGED <<filters, blockNumbers, timers, timeouts, now, head>>
          /\ Same

\* The reply to eth_getLogs arrives: the promise of rpc.getFilterLogs
\* resolves with the reply.
getFilterLogsReply ==
  /\ Waiting("logs")
  /\ last' = Resolve(call, getFilterLogs(call.sent[1].params))
  /\ call' = Idle
  /\ UNCHANGED blockNumbers
  /\ IF call.op = "getLogFilterChanges"
     THEN Polled(call, call.blockNumber, {})
     ELSE Same
  /\ UNCHANGED <<filters, timers, timeouts, now, head>>

\* An RPC request of the waiting call fails (the transport rejects, or the
\* node answers with an error): RPCServer.call throws, and the promise of
\* the call rejects.
RpcFails ==
  /\ call # Idle
  /\ last' = Reject(call, "rpc error")
  /\ call' = Idle
  /\ Failed(call)
  /\ UNCHANGED <<filters, blockNumbers, timers, timeouts, now, head>>

\* ----------------------------------------------------------- environment
Tick ==
  /\ now + TickMs <= MaxTicks * TickMs
  /\ now' = now + TickMs
  /\ Unsettled /\ UNCHANGED <<filters, blockNumbers, timers, timeouts, head, call>>
  /\ Same

\* The chain grows by one block.
NewBlock ==
  /\ head + 1 \in Heights
  /\ head' = head + 1
  /\ HeadMoved
  /\ Unsettled /\ UNCHANGED <<filters, blockNumbers, timers, timeouts, now, call>>

\* The node reports a lower head than before (a reorganisation, or another
\* node behind the same URL).
HeadFallsBack ==
  /\ \E h \in Heights : h < head /\ head' = h
  /\ HeadMoved
  /\ Unsettled /\ UNCHANGED <<filters, blockNumbers, timers, timeouts, now, call>>

\* -------------------------------------------------------------- provider
\* The ids callers give their requests: a string, a number, none.
CallerIds == {Str("a"), Num(7), Undefined}

\* The values of new Date().getTime() + Math.floor(Math.random() * 1000).
GenIds == 1001..(1000 + MaxGenIds)

\* The requests callers pass to sendAsync; params stands for params[0].
Payloads == [id : CallerIds, params : IdArgs]

\* IdMapping.tryIntifyId(payload), genId() returning newId: the mapping and
\* payload.id afterwards.
tryIntifyId(ids, id, newId) ==
  IF ~Truthy(id) THEN [intIds |-> ids, id |-> Num(newId)]
  ELSE IF id.k # "number"
  THEN [intIds |-> MapSet(ids, newId, id), id |-> Num(newId)]
  ELSE [intIds |-> ids, id |-> id]

\* IdMapping.tryPopId(id): the mapping afterwards and the value returned.
tryPopId(ids, id) ==
  LET originId == IF MapHas(ids, KeyOf(id)) THEN ids[KeyOf(id)] ELSE Undefined
  IN [intIds |-> IF Truthy(originId) THEN MapDelete(ids, KeyOf(id)) ELSE ids,
      originId |-> originId]

\* IdMapping.tryRestoreId(payload): the mapping and payload.id afterwards.
tryRestoreId(ids, id) ==
  LET popped == tryPopId(ids, id)
  IN [intIds |-> popped.intIds,
      id |-> IF Truthy(popped.originId) THEN popped.originId ELSE id]

\* Nothing is delivered.
NoResponse == [request |-> "none"]

\* The callback of request is called with an error, or with a response
\* carrying id.
Delivered(request, error, id) == [request |-> request, error |-> error, id |-> id]

\* The synchronous start of _sendAsync: the id is made a number and the
\* callback of the request is stored under it.
Accepted(payload, newId) ==
  LET mapped == tryIntifyId(intIds, payload.id, newId)
  IN [intIds |-> mapped.intIds,
      id |-> mapped.id,
      callbacks |-> MapSet(callbacks, KeyOf(mapped.id),
                           [id |-> payload.id, wire |-> mapped.id])]

\* sendResponse(id, result), the mapping being ids and the callbacks cbs.
sendResponse(ids, cbs, id) ==
  LET popped == tryPopId(ids, id)
      originId == IF Truthy(popped.originId) THEN popped.originId ELSE id
  IN /\ intIds' = popped.intIds
     /\ callbacks' = MapDelete(cbs, KeyOf(id))
     /\ response' = IF MapHas(cbs, KeyOf(id))
                    THEN Delivered(cbs[KeyOf(id)], FALSE, originId)
                    ELSE NoResponse

\* sendError(id, error), the mapping being ids and the callbacks cbs.
sendError(ids, cbs, id) ==
  /\ intIds' = ids
  /\ callbacks' = MapDelete(cbs, KeyOf(id))
  /\ response' = IF MapHas(cbs, KeyOf(id))
                 THEN Delivered(cbs[KeyOf(id)], TRUE, Undefined)
                 ELSE NoResponse

\* A step of the provider that calls nothing of FilterMgr.
FilterMgrIdle ==
  /\ Unsettled /\ Same
  /\ UNCHANGED <<filters, blockNumbers, timers, timeouts, now, head, call>>

\* sendAsync of eth_accounts (eth_coinbase, net_version): answered at once.
eth_accounts(payload) ==
  \E newId \in GenIds :
    LET a == Accepted(payload, newId)
    IN /\ sendResponse(a.intIds, a.callbacks, a.id)
       /\ UNCHANGED <<rpcIntIds, posted>>
       /\ FilterMgrIdle

\* sendAsync of eth_sign (and the other methods handed to the host by
\* postMessage): the callback waits for the host.
eth_sign(payload) ==
  \E newId \in GenIds :
    LET a == Accepted(payload, newId)
    IN /\ intIds' = a.intIds
       /\ callbacks' = a.callbacks
       /\ response' = NoResponse
       /\ UNCHANGED <<rpcIntIds, posted>>
       /\ FilterMgrIdle

\* The host answers a request it was handed, calling sendResponse with the
\* id it was given.
HostResponds ==
  \E key \in DOMAIN callbacks :
    /\ sendResponse(intIds, callbacks, Num(key))
    /\ UNCHANGED <<rpcIntIds, posted>>
    /\ FilterMgrIdle

\* The host refuses a request it was handed, calling sendError.
HostRefuses ==
  \E key \in DOMAIN callbacks :
    /\ sendError(intIds, callbacks, Num(key))
    /\ UNCHANGED <<rpcIntIds, posted>>
    /\ FilterMgrIdle

\* sendAsync of eth_uninstallFilter: FilterMgr.uninstallFilter resolves and
\* its .then callback calls sendResponse.
eth_uninstallFilter(payload) ==
  \E newId \in GenIds :
    LET a == Accepted(payload, newId)
    IN /\ uninstallFilter(payload.params)
       /\ sendResponse(a.intIds, a.callbacks, a.id)
       /\ UNCHANGED <<rpcIntIds, posted>>

\* sendAsync of eth_getFilterChanges for a filter FilterMgr rejects at
\* once: the .catch callback calls sendError.
eth_getFilterChanges(payload) ==
  \E newId \in GenIds :
    LET a == Accepted(payload, newId)
    IN /\ getFilterChanges(payload.params)
       /\ last'.op = "getFilterChanges"
       /\ sendError(a.intIds, a.callbacks, a.id)
       /\ UNCHANGED <<rpcIntIds, posted>>

\* sendAsync of any other method: the callback is dropped and the payload
\* goes to RPCServer.call, which posts it.
_sendAsyncDefault(payload) ==
  /\ Cardinality(posted) < MaxPosted
  /\ \E newId, rpcNewId \in GenIds :
       LET a == Accepted(payload, newId)
           sent == tryIntifyId(rpcIntIds, a.id, rpcNewId)
       IN /\ intIds' = a.intIds
          /\ callbacks' = MapDelete(a.callbacks, KeyOf(a.id))
          /\ rpcIntIds' = sent.intIds
          /\ posted' = posted \cup {[id |-> payload.id, wire |-> a.id,
                                      sent |-> sent.id]}
          /\ response' = NoResponse
          /\ FilterMgrIdle

\* The node answers a posted request with a result, under the id it was
\* sent: RPCServer.call restores the id and the promise of _sendAsync
\* resolves with the reply.
callReply ==
  \E r \in posted :
    /\ LET restored == tryRestoreId(rpcIntIds, r.sent)
       IN /\ rpcIntIds' = restored.intIds
          /\ response' = Delivered([id |-> r.id, wire |-> r.wire], FALSE,
                                   restored.id)
    /\ posted' = posted \ {r}
    /\ UNCHANGED <<intIds, callbacks>>
    /\ FilterMgrIdle

\* A posted request fails (the transport rejects, or the node answers with
\* an error): the promise of _sendAsync rejects.
callFails ==
  \E r \in posted :
    /\ response' = Delivered([id |-> r.id, wire |-> r.wire], TRUE, Undefined)
    /\ posted' = posted \ {r}
    /\ UNCHANGED <<intIds, rpcIntIds, callbacks>>
    /\ FilterMgrIdle

\* ---------------------------------------------------------- specification
\* The state after construction, the node's head being any height.
Constructed ==
  /\ filters = EmptyMap
  /\ blockNumbers = EmptyMap
  /\ timers = EmptyMap
  /\ timeouts = {}
  /\ now = 0
  /\ head \in Heights
  /\ call = Idle
  /\ last = NoCall
  /\ delivered = EmptyMap
  /\ polledAt = EmptyMap
  /\ steady = EmptyMap
  /\ fired = {}
  /\ intIds = EmptyMap
  /\ rpcIntIds = EmptyMap
  /\ callbacks = EmptyMap
  /\ posted = {}
  /\ response = NoResponse

Init == Constructed /\ recording = FALSE
InitHistory == Constructed /\ recording = TRUE

\* A step of FilterMgr, of its timers or of the node, made without the
\* provider.
Direct(Step) == Step /\ UNCHANGED providerVars

Next ==
  \/ Direct(\E p \in FilterParams : newFilter(p))
  \/ Direct(newBlockFilter)
  \/ Direct(newPendingTransactionFilter)
  \/ Direct(newFilterThen)
  \/ Direct(\E a \in IdArgs : uninstallFilter(a))
  \/ Direct(\E a \in IdArgs : getFilterChanges(a))
  \/ Direct(_getLogFilterChangesThen)
  \/ Direct(_getBlocksForFilterThen)
  \/ Direct(\E i \in 1..MaxHead : getBlockByNumberReply(i))
  \/ Direct(\E a \in IdArgs : getFilterLogsCall(a))
  \/ Direct(getFilterLogsReply)
  \/ Direct(RpcFails)
  \/ Direct(Timeout)
  \/ Direct(Tick)
  \/ Direct(NewBlock)
  \/ Direct(HeadFallsBack)

Spec == Init /\ [][Next]_vars

\* The same behaviours, with the history variables recorded.
SpecHistory == InitHistory /\ [][Next]_vars

\* The requests callers make through TinyWeb3Provider.sendAsync.
NextProvider ==
  \/ \E payload \in Payloads : eth_accounts(payload)
  \/ \E payload \in Payloads : eth_sign(payload)
  \/ HostResponds
  \/ HostRefuses
  \/ \E payload \in Payloads : eth_uninstallFilter(payload)
  \/ \E payload \in Payloads : eth_getFilterChanges(payload)
  \/ \E payload \in Payloads : _sendAsyncDefault(payload)
  \/ callReply
  \/ callFails

SpecProvider == Init /\ [][NextProvider]_vars

\* ------------------------------------------------------------ properties
\* The height a hex string or a number stands for.
HeightOf(x) == x.v

\* The block numbers a range scan asks for, one request per height of
\* lo .. hi, in ascending order.
FetchesOf(lo, hi) ==
  [i \in 1..(hi - lo + 1) |-> Request("eth_getBlockByNumber", Hex(lo + i - 1))]

\* The records of the blocks of lo .. hi, in ascending order.
RecordsOf(op, lo, hi) ==
  [i \in 1..(hi - lo + 1) |->
     IF op = "getBlockFilterChanges" THEN Block(lo + i - 1).hash
     ELSE Block(lo + i - 1).transactions]

\* The step that led here resolved (rejected) a poll that had got as far
\* as asking the node for the head.
PollResolved == last.op \in PollOps /\ last.ok
PollRejected == last.op \in PollOps /\ ~last.ok

\* The filter the settled call worked on is still installed, with a block
\* number.
StillInstalled == MapHas(filters, last.id) /\ MapHas(blockNumbers, last.id)

\* C1: a block (or pending-transaction) poll whose cursor was c and that is
\* told a head h > c fetches exactly the heights c+1 .. h, one request
\* each, returns their records in ascending order, and leaves the cursor
\* at h.
C1_ScansAboveCursorToHead ==
  (last.op \in BlockPollOps /\ last.ok
   /\ HeightOf(last.blockNumber) > HeightOf(last.fromBlock))
  => /\ last.sent = FetchesOf(HeightOf(last.fromBlock) + 1,
                              HeightOf(last.blockNumber))
     /\ last.value = RecordsOf(last.op, HeightOf(last.fromBlock) + 1,
                               HeightOf(last.blockNumber))
     /\ (StillInstalled => blockNumbers[last.id] = last.blockNumber)

\* C2: when a request of a poll fails, the poll fails and the filter's
\* cursor is what it was when the poll was made.
C2_FailedPollKeepsCursor ==
  (PollRejected /\ StillInstalled) => blockNumbers[last.id] = last.fromBlock

\* C3: while no poll is under way, every height above the head a block
\* filter was created at, up to its cursor, has been returned by one of
\* its resolved polls.
C3_NoHeightSkipped ==
  \A id \in DOMAIN delivered :
    (call = Idle /\ MapHas(filters, id) /\ MapHas(blockNumbers, id)
     /\ filters[id].type = "block")
    => \A h \in Heights :
         (delivered[id].c0 < h /\ h <= HeightOf(blockNumbers[id]))
         => h \in delivered[id].seen

\* C4: the block number recorded for a filter id that stays installed never
\* decreases.
C4_CursorNeverDecreases ==
  [][\A id \in DOMAIN blockNumbers \cap DOMAIN blockNumbers' :
       (MapHas(filters, id) /\ MapHas(filters', id))
       => HeightOf(blockNumbers'[id]) >= HeightOf(blockNumbers[id])]_vars

\* C5: the filter ids in the registry are exactly the filter ids that have
\* a pending timer callback.
C5_RegistryMatchesArmedTimers ==
  DOMAIN filters = {t.id : t \in timeouts}

\* C5 witness: a filter installed after an earlier timer of its id was
\* set and time has passed, its own timer pending.
C5_Witness ==
  \E t \in timeouts :
    /\ MapHas(filters, t.id)
    /\ timers[t.id] = t
    /\ t.at > timeoutInterval
    /\ now > 0

\* C6: a creation gives the new filter an id that no installed filter has,
\* and leaves every installed filter, its block number and its timer as
\* they were.
Creates == call = Idle /\ call' # Idle /\ call'.op \in CreateOps
C6_CreationTakesFreshId ==
  [][Creates =>
       /\ ~MapHas(filters, call'.id)
       /\ \A id \in DOMAIN filters :
            /\ MapHas(filters', id) /\ filters'[id] = filters[id]
            /\ timers'[id] = timers[id]
            /\ (timers[id] \in timeouts <=> timers'[id] \in timeouts')
       /\ blockNumbers' = blockNumbers]_vars

\* C7: a filter whose last resolved poll was made at time t is installed
\* at every time before t + timeoutInterval (unless it is uninstalled).
C7_PollExtendsLife ==
  \A id \in DOMAIN polledAt :
    now < polledAt[id] + timeoutInterval => MapHas(filters, id)

\* C8: once the timer callback of a filter has run, and until a filter is
\* installed under its id again, the id has neither a registry entry nor a
\* block number, and getFilterChanges and getFilterLogs on it reject with
\* their "no filter found" errors.
C8_ExpiredFilterIsGone ==
  \A id \in fired :
    /\ ~MapHas(filters, id)
    /\ ~MapHas(blockNumbers, id)
    /\ (last.op = "getFilterChanges" /\ last.id = id)
       => (~last.ok /\ last.value = "getFilterChanges: no filter found")
    /\ (last.op = "getFilterLogs" /\ last.id = id)
       => (~last.ok /\ last.value = "no filter found")

\* C9: a log poll whose cursor was c and whose toBlock resolves to t >= c
\* issues one log query, over c .. t with the filter's criteria, and when
\* the query succeeds the cursor is t.
C9_LogPollAdvancesToToBlock ==
  (last.op = "getLogFilterChanges" /\ last.ok
   /\ last.toBlock.k \in {"hex", "number"}
   /\ HeightOf(last.fromBlock) <= HeightOf(last.toBlock))
  => /\ Len(last.sent) = 1
     /\ last.sent[1].method = "eth_getLogs"
     /\ HeightOf(last.sent[1].params.fromBlock) = HeightOf(last.fromBlock)
     /\ HeightOf(last.sent[1].params.toBlock) = HeightOf(last.toBlock)
     /\ last.sent[1].params.addresses = last.filter.addresses
     /\ last.sent[1].params.topics = last.filter.topics
     /\ (StillInstalled
         => HeightOf(blockNumbers[last.id]) = HeightOf(last.toBlock))

\* The number of entries a resolved poll returns.
ResultLen(l) ==
  IF l.op \in BlockPollOps \/ l.sent = << >> THEN Len(l.value)
  ELSE Len(l.value.result)

\* C10: a poll that resolves after a resolved poll of the same filter, the
\* head having stayed what the first poll was told, returns nothing and
\* leaves the cursor where the first poll left it.
C10_SecondPollIsEmpty ==
  [][(last'.op \in PollOps /\ last'.ok /\ MapHas(steady, last'.id)
      /\ MapHas(blockNumbers', last'.id))
     => /\ ResultLen(last') = 0
        /\ blockNumbers'[last'.id] = steady[last'.id]]_vars

\* C11: an id that has been uninstalled (or never installed), and whose
\* timer callback has not run, has no block number: the write of a call
\* that was waiting when the filter was uninstalled is dropped.
C11_UninstallDropsCursorWrite ==
  \A id \in DOMAIN blockNumbers \ fired : MapHas(filters, id)

\* A block specifier that is neither absent, nor "latest", "earliest" or
\* "pending", nor a hexadecimal literal.
InvalidSpecifier(x) ==
  /\ x # Undefined
  /\ x \notin {Str("latest"), Str("earliest"), Str("pending")}
  /\ x.k # "hex"

\* This step is the call newFilter(p).
NewFilterCalled(p) ==
  \/ call = Idle /\ call' # Idle /\ call'.op = "newFilter" /\ call'.arg = p
  \/ call' = call /\ last'.op = "newFilter" /\ last'.arg = p

\* C12: newFilter with an invalid fromBlock or toBlock rejects with the
\* invalid-block error and leaves the registry, the block numbers and the
\* timers as they were.
C12_InvalidBlockRegistersNothing ==
  [][\A p \in FilterParams :
       ((InvalidSpecifier(p.fromBlock) \/ InvalidSpecifier(p.toBlock))
        /\ NewFilterCalled(p))
       => /\ last'.op = "newFilter"
          /\ ~last'.ok
          /\ last'.value = "Invalid block option"
          /\ UNCHANGED <<filters, blockNumbers, timers, timeouts>>]_vars

\* The height a normalized fromBlock / toBlock stands for when the head is
\* blockNumber.
ResolvedHeight(x, blockNumber) ==
  IF x = Str("latest") THEN HeightOf(blockNumber) ELSE HeightOf(x)

\* The stored range of a log filter is inverted when the head is
\* blockNumber.
Inverted(filter, blockNumber) ==
  /\ filter.fromBlock.k = "number" \/ filter.fromBlock = Str("latest")
  /\ filter.toBlock.k = "number" \/ filter.toBlock = Str("latest")
  /\ ResolvedHeight(filter.fromBlock, blockNumber)
       > ResolvedHeight(filter.toBlock, blockNumber)

\* C13: a poll of a log filter whose fromBlock is above its toBlock (the
\* head it is told standing for "latest") issues no request and resolves
\* with an empty result.
C13_InvertedRangePollsNothing ==
  (last.op = "getLogFilterChanges" /\ last.blockNumber # Undefined
   /\ Inverted(last.filter, last.blockNumber))
  => /\ last.sent = << >>
     /\ last.ok
     /\ last.value = << >>

\* The options of a log filter whose fromBlock and toBlock are heights or
\* "latest".
ValidLogOptions(options) ==
  /\ IsLogOptions(options)
  /\ options.fromBlock.k = "number" \/ options.fromBlock = Str("latest")
  /\ options.toBlock.k = "number" \/ options.toBlock = Str("latest")

\* The block parameter sent stands for the stored one: "latest" for
\* "latest", the same height for a height.
SendsStored(sent, stored) ==
  IF stored = Str("latest") THEN sent = Str("latest")
  ELSE sent.k \in {"hex", "number"} /\ HeightOf(sent) = HeightOf(stored)

\* The logs of the blocks lo .. hi that exist when the head is h.
LogsOf(lo, hi, h) ==
  LET top == IF hi < h THEN hi ELSE h
  IN [i \in 1..(IF top >= lo THEN top - lo + 1 ELSE 0) |-> lo + i - 1]

\* C14: getFilterLogs on an installed log filter issues one eth_getLogs
\* over the stored fromBlock .. toBlock ("latest" standing for the head when
\* the node answers) whatever the filter's block number is, resolves with
\* the logs of that range, and leaves the block numbers as they were; on an
\* id that is not installed it rejects with "no filter found" and issues
\* nothing.
C14_GetFilterLogsReplaysStoredRange ==
  [][/\ (call = Idle /\ call' # Idle /\ call'.op = "getFilterLogs")
        => /\ MapHas(filters, call'.id)
           /\ blockNumbers' = blockNumbers
           /\ ValidLogOptions(call'.filter)
              => /\ Len(call'.sent) = 1
                 /\ call'.sent[1].method = "eth_getLogs"
                 /\ SendsStored(call'.sent[1].params.fromBlock,
                                call'.filter.fromBlock)
                 /\ SendsStored(call'.sent[1].params.toBlock,
                                call'.filter.toBlock)
     /\ (call # Idle /\ call.op = "getFilterLogs"
         /\ last'.op = "getFilterLogs" /\ last'.ok)
        => /\ blockNumbers' = blockNumbers
           /\ ValidLogOptions(call.filter)
              => last'.value.result
                   = LogsOf(ResolvedHeight(call.filter.fromBlock, Hex(head)),
                            ResolvedHeight(call.filter.toBlock, Hex(head)),
                            head)
     /\ (call' = call /\ last'.op = "getFilterLogs")
        => /\ ~last'.ok
           /\ last'.value = "no filter found"
           /\ last'.sent = << >>
           /\ ~MapHas(filters, last'.id)
           /\ UNCHANGED <<filters, blockNumbers, timeouts>>]_vars

\* C14 witness: getFilterLogs has resolved for an "earliest" .. "latest"
\* filter whose block number is neither 0 nor the head, with the logs of
\* 0 .. head.
C14_Witness ==
  /\ last.op = "getFilterLogs" /\ last.ok
  /\ IsLogOptions(last.filter)
  /\ last.filter.fromBlock = Num(0)
  /\ last.filter.toBlock = Str("latest")
  /\ MapHas(blockNumbers, last.id)
  /\ HeightOf(blockNumbers[last.id]) > 0
  /\ HeightOf(blockNumbers[last.id]) < head
  /\ Len(last.value.result) = head + 1

\* C15: uninstallFilter resolves for every id; after it the id has no
\* registry entry, no block number and no pending timer, and every other
\* id has the entry, the block number and the timers it had.
C15_UninstallRemovesOnlyItsId ==
  [][last'.op = "uninstallFilter"
     => /\ last'.ok
        /\ filters' = MapDelete(filters, last'.id)
        /\ blockNumbers' = MapDelete(blockNumbers, last'.id)
        /\ timeouts' = {t \in timeouts : t.id # last'.id}]_vars

\* C15 witness: a filter whose timer was still to run has been
\* uninstalled.
C15_Witness ==
  /\ last.op = "uninstallFilter"
  /\ ~MapHas(filters, last.id)
  /\ MapHas(timers, last.id)
  /\ timers[last.id].at > now
  /\ timers[last.id] \notin timeouts

\* The record a block poll returns for the block of height n.
RecordOf(op, n) ==
  IF op = "getBlockFilterChanges" THEN Block(n).hash ELSE Block(n).transactions

\* C16: whatever the order the replies of a range scan arrive in, a
\* resolved block (or pending-transaction) poll returns the records of the
\* blocks it asked for in ascending height order.
C16_ResultInAscendingHeightOrder ==
  (last.op \in BlockPollOps /\ last.ok)
  => /\ \A i, j \in 1..Len(last.sent) :
          i < j => HeightOf(last.sent[i].params) < HeightOf(last.sent[j].params)
     /\ last.value = [i \in 1..Len(last.sent) |->
                        RecordOf(last.op, HeightOf(last.sent[i].params))]

\* C16 witness: a poll has resolved whose second request was answered
\* before its first.
C16_Witness ==
  /\ last.op \in BlockPollOps /\ last.ok
  /\ Len(last.order) >= 2
  /\ last.order[1] > last.order[2]

\* A poll that resolved with an empty result without issuing a request.
EmptyWithoutRequest(l) == l.sent = << >> /\ l.ok /\ l.value = << >>

\* C17: a poll of a log filter whose toBlock is the height T, made with the
\* cursor c, resolves empty without issuing a request exactly when c > T,
\* and then leaves the cursor where it was.
C17_EmptyExactlyWhenCursorAboveToBlock ==
  (last.op = "getLogFilterChanges" /\ last.blockNumber # Undefined
   /\ last.filter.toBlock.k = "number")
  => /\ (HeightOf(last.fromBlock) > HeightOf(last.filter.toBlock))
        <=> EmptyWithoutRequest(last)
     /\ (EmptyWithoutRequest(last) /\ StillInstalled)
        => blockNumbers[last.id] = last.fromBlock

\* C18: every filter in the registry has a block number, which is a head
\* the node has reported; and a creation whose eth_blockNumber request
\* failed leaves neither a filter nor a pending timer under its id.
C18_RegisteredFilterHasCursor ==
  /\ \A id \in DOMAIN filters :
       /\ MapHas(blockNumbers, id)
       /\ blockNumbers[id] \in {Hex(h) : h \in Heights}
  /\ (last.op \in CreateOps /\ ~last.ok /\ last.id # NoKey)
     => /\ ~MapHas(filters, last.id)
        /\ \A t \in timeouts : t.id # last.id

\* A block parameter that stands for the height 0 is the string "0x0".
ZeroAsHex(x) == (x.k \in {"hex", "number"} /\ HeightOf(x) = 0) => x = Hex(0)

\* C19: a filter whose block number is "0x0" is found by getFilterChanges,
\* and every eth_getBlockByNumber and eth_getLogs request issued for the
\* height 0 carries it as "0x0".
C19_HeightZeroLikeAnyOther ==
  /\ (last.op = "getFilterChanges" /\ ~last.ok /\ MapHas(filters, last.id))
     => ~MapHas(blockNumbers, last.id)
  /\ (call # Idle /\ call.op \in BlockPollOps)
     => \A i \in 1..Len(call.sent) : ZeroAsHex(call.sent[i].params)
  /\ (call # Idle /\ call.op \in {"getFilterLogs", "getLogFilterChanges"}
      /\ ValidLogOptions(call.filter))
     => \A i \in 1..Len(call.sent) :
          /\ ZeroAsHex(call.sent[i].params.fromBlock)
          /\ ZeroAsHex(call.sent[i].params.toBlock)

\* C20: a response delivered to the callback of a request whose id is a
\* string carries that id, and once it is delivered neither IdMapping holds
\* an entry for the request.
C20_CallerIdRoundTrips ==
  (response # NoResponse /\ response.request.id.k = "string"
   /\ ~response.error)
  => /\ response.id = response.request.id
     /\ ~MapHas(intIds, KeyOf(response.request.wire))
     /\ ~MapHas(rpcIntIds, KeyOf(response.request.wire))

====
